---- MODULE Spec2Model ----
(***************************************************************************)
(* Model of the Percify avatar agent (src/src/server.ts) and of the tools  *)
(* that call it (src/src/tools.ts): the persisted AgentState, onStart's    *)
(* self-heal, saveAvatarProfile's merge, saveMemory's capped log,          *)
(* getAvatarState's view and the system prompt built from the state.       *)
(*                                                                         *)
(* JavaScript values are modelled as follows.  An optional value is a set  *)
(* with at most one element: {} is undefined, {v} is the value v.  An      *)
(* object is a function from the keys whose value is defined.  Strings are *)
(* strings, arrays are sequences.  generateId() returns a fresh id, taken  *)
(* from the counter nextId.  new Date() reads the clock variable now.      *)
(***************************************************************************)
EXTENDS Integers, Sequences, FiniteSets, TLC

VARIABLES
    state,      \* this.state: the container the agent framework persists
    started,    \* onStart has run
    threw,      \* an exception escaped a handler
    result,     \* what the last handler returned
    nextId,     \* ids handed out by generateId() so far, plus one
    now,        \* the wall clock read by new Date()
    jumps,      \* how many times the wall clock was set
    renders,    \* how many times the system prompt was built
    appended,   \* history: every item saveMemory ever stored, in call order
    inflight,   \* tool calls the model has requested and that have not finished
    mutatedAt,  \* history: the value of renders when the store was last written
    schedules,  \* the calls the host scheduler has received, in order
    turn,       \* the streamText loop of the last chat turn: running, steps
                \* done, tool calls the model has requested in it
    agent       \* getCurrentAgent() finds the agent in the calling context

vars == <<state, started, threw, result, nextId, now, jumps, renders, appended,
          inflight, mutatedAt, schedules, turn, agent>>

----------------------------------------------------------------------------
(* Bounds of the model *)

\* calls of saveMemory in a run of Spec
MaxAppends == 2
\* calls of saveMemory in a run of SpecChat
MaxChatAppends == 1
\* tool calls in flight at one time in a run of SpecTurn
MaxInflight == 2
\* calls of agent.schedule in a run of SpecTool
MaxSchedules == 1
\* calls of saveMemory in a run of SpecFill
MaxFill == 52
\* times the wall clock is set (to an equal, earlier or later value)
MaxClockJumps == 1
\* times the system prompt is built
MaxRenders == 2

----------------------------------------------------------------------------
(* Program constants *)

\* server.ts:162-163  the memory cap
MemoryCap == 50
\* server.ts:118, 173  the window getAvatarState and saveMemory return
RecentWindow == 5
\* server.ts:216  the window buildContextString renders
ContextWindow == 3
\* server.ts:315  stopWhen: stepCountIs(10)
StepLimit == 10

Tones == {"casual", "professional", "playful", "technical"}
MemoryTypes == {"task", "preference", "note"}
ProfileFields == {"displayName", "bio", "tone", "expertiseTags"}
AvatarFields == {"id"} \cup ProfileFields

----------------------------------------------------------------------------
(* JavaScript helpers *)

Undefined == {}
Some(v) == {v}
The(m) == CHOOSE v \in m : TRUE

\* obj.key, undefined when the key is missing
Get(obj, key) == IF key \in DOMAIN obj THEN Some(obj[key]) ELSE Undefined

\* obj?.key on an optional object
OptGet(mobj, key) == IF mobj = Undefined THEN Undefined ELSE Get(The(mobj), key)

\* a || b for strings: "" and undefined are falsy
OrStr(a, b) == IF a # Undefined /\ a # Some("") THEN a ELSE b

\* a || b for objects and arrays: only undefined is falsy ([] is truthy)
OrObj(a, b) == IF a # Undefined THEN a ELSE b

\* { key: value }, the key left out when the value is undefined
Prop(key, m) == IF m = Undefined THEN [k \in {} |-> k] ELSE [k \in {key} |-> The(m)]

\* array.slice(-n)
SliceLast(s, n) == IF Len(s) <= n THEN s ELSE SubSeq(s, Len(s) - n + 1, Len(s))

----------------------------------------------------------------------------
(* Values the model draws from *)

\* server.ts:25-31  AvatarProfile, every field defined
Avatar(id, displayName, bio, tone, expertiseTags) ==
    [id |-> id, displayName |-> displayName, bio |-> bio, tone |-> tone,
     expertiseTags |-> expertiseTags]

\* server.ts:152-157  MemoryItem
MemoryItem(id, createdAt, type, content) ==
    [id |-> id, createdAt |-> createdAt, type |-> type, content |-> content]

\* server.ts:46-49  AgentState held in this.state.  kind tells what the
\* container is: "absent" (null or undefined), "primitive" (a string or a
\* number) or "object".  memIsArray is Array.isArray(this.state.memories);
\* memories is <<>> when it is not an array.
Container(kind, avatar, memIsArray, memories) ==
    [kind |-> kind, avatar |-> avatar, memIsArray |-> memIsArray, memories |-> memories]

\* server.ts:82-85  initialState
initialState == Container("object", Undefined, TRUE, <<>>)

\* an avatar and a memory written by an earlier run of the agent
StoredAvatar == Avatar(1, "Sam", "Ops", "playful", <<"go">>)
StoredMemories == [i \in 1..6 |-> MemoryItem(i + 1, 0, "note", "m0")]

\* the first id generateId() hands out in this run
FirstFreshId == Len(StoredMemories) + 2

\* What onStart can find in this.state: nothing, a primitive, an object whose
\* memories field is not an array (with or without an avatar), the initial
\* state, or a well-formed state written by an earlier run.
StartStates ==
    { Container("absent", Undefined, FALSE, <<>>),
      Container("primitive", Undefined, FALSE, <<>>),
      Container("object", Undefined, FALSE, <<>>),
      Container("object", Some(StoredAvatar), FALSE, <<>>),
      initialState,
      Container("object", Some(StoredAvatar), TRUE, StoredMemories) }

\* tools.ts:27-34  inputs of the saveAvatarProfile tool: any subset of the
\* four fields, each with a value its schema accepts
NameInputs == {"", "Alex"}
BioInputs == {"", "Dev"}
TagInputs == {<<>>, <<"ai", "ml">>}

ProfileInput(fields, displayName, bio, tone, expertiseTags) ==
    [f \in fields |->
        CASE f = "displayName" -> displayName
          [] f = "bio" -> bio
          [] f = "tone" -> tone
          [] f = "expertiseTags" -> expertiseTags]

ToneInputs == {"professional"}

ProfileInputs ==
    { ProfileInput(fs, n, b, t, g) :
        fs \in SUBSET ProfileFields, n \in NameInputs, b \in BioInputs,
        t \in ToneInputs, g \in TagInputs }

\* the profile updates a chat asks for in SpecChat; "formal" is a tone the
\* schema of the tool does not list
ChatProfileInputs ==
    { [displayName |-> "Alex"], [tone |-> "professional"], [tone |-> "technical"],
      [tone |-> "formal"], [bio |-> "Dev", expertiseTags |-> <<"ai", "ml">>] }

\* tools.ts:76-81  what a model may send to the saveMemory tool
TypeInputs == {"note", "task", "reminder"}
ContentInputs == {"", "m"}

\* values the wall clock takes
ClockValues == {0, 1, 2}

TypeOK ==
    /\ state.kind \in {"absent", "primitive", "object"}
    /\ started \in BOOLEAN
    /\ threw \in BOOLEAN
    /\ nextId \in Nat
    /\ now \in ClockValues
    /\ jumps \in 0..MaxClockJumps + 1
    /\ renders \in 0..MaxRenders + 1
    /\ Cardinality(inflight) <= MaxInflight
    /\ mutatedAt \in 0..renders

----------------------------------------------------------------------------
(* The agent: src/src/server.ts *)

Init ==
    /\ state \in StartStates
    /\ started = FALSE
    /\ threw = FALSE
    /\ result = [op |-> "none"]
    /\ nextId = FirstFreshId
    /\ now = 1
    /\ jumps = 0
    /\ renders = 0
    /\ appended = state.memories
    /\ inflight = {}
    /\ mutatedAt = 0
    /\ schedules = <<>>
    /\ turn = [running |-> FALSE, steps |-> 0, calls |-> 0]
    /\ agent = TRUE

\* server.ts:94  !this.state || typeof this.state !== "object"
StateMissing(s) == s.kind = "absent" \/ s.kind # "object"

\* server.ts:94-100  the first repair of onStart
AfterStateCheck(s) == IF StateMissing(s) THEN initialState ELSE s

\* server.ts:103  reading this.state.memories throws a TypeError when
\* this.state is null or undefined
MemoriesReadThrows(s) == s.kind = "absent"

\* a plausible slip: the repair of memories resets the whole state
MemoriesCheckResetsAll(s) == IF s.memIsArray THEN s ELSE initialState

\* server.ts:103-109  the second repair: { ...this.state, memories: [] }
\* (spreading a primitive gives an object with no avatar)
AfterMemoriesCheck(s) ==
    IF s.memIsArray THEN s
    ELSE Container("object", s.avatar, TRUE, <<>>)

\* server.ts:90-110  onStart
OnStart ==
    /\ ~started
    /\ started' = TRUE
    /\ LET s1 == AfterStateCheck(state) IN
         IF MemoriesReadThrows(s1)
         THEN /\ threw' = TRUE
              /\ state' = s1
         ELSE /\ threw' = threw
              /\ state' = AfterMemoriesCheck(s1)
    /\ result' = [op |-> "onStart"]
    /\ UNCHANGED <<agent, schedules, turn, nextId, now, jumps, renders, appended, inflight, mutatedAt>>

\* a plausible slip: slice(0, 5) in place of slice(-5)
GetAvatarStateOldest(s) ==
    [avatar |-> s.avatar,
     memories |-> SubSeq(s.memories, 1,
                         IF Len(s.memories) < RecentWindow THEN Len(s.memories)
                         ELSE RecentWindow)]

\* server.ts:115-120  getAvatarState
GetAvatarState(s) ==
    [avatar |-> s.avatar, memories |-> SliceLast(s.memories, RecentWindow)]

\* a plausible slip: the id is generated anew on every save
IdRegenerated(currentAvatar, freshId) == Some(freshId)

\* server.ts:130  currentAvatar?.id || generateId()
MergedId(currentAvatar, freshId) == OrObj(OptGet(currentAvatar, "id"), Some(freshId))

\* server.ts:131  profileInput.displayName || currentAvatar?.displayName || "Unnamed Avatar"
MergedDisplayName(profileInput, currentAvatar) ==
    OrStr(Get(profileInput, "displayName"),
          OrStr(OptGet(currentAvatar, "displayName"), Some("Unnamed Avatar")))

\* a plausible slip: the hard default of bio is left out
BioWithoutDefault(profileInput, currentAvatar) ==
    OrStr(Get(profileInput, "bio"), OptGet(currentAvatar, "bio"))

\* server.ts:132  profileInput.bio || currentAvatar?.bio || ""
MergedBio(profileInput, currentAvatar) ==
    OrStr(Get(profileInput, "bio"), OrStr(OptGet(currentAvatar, "bio"), Some("")))

\* server.ts:133  profileInput.tone || currentAvatar?.tone || "casual"
MergedTone(profileInput, currentAvatar) ==
    OrStr(Get(profileInput, "tone"), OrStr(OptGet(currentAvatar, "tone"), Some("casual")))

\* server.ts:134  profileInput.expertiseTags || currentAvatar?.expertiseTags || []
MergedExpertiseTags(profileInput, currentAvatar) ==
    OrObj(Get(profileInput, "expertiseTags"),
          OrObj(OptGet(currentAvatar, "expertiseTags"), Some(<<>>)))

\* server.ts:128-135  the merged profile.  profileInput is an object with
\* the supplied fields; currentAvatar is optional; freshId is generateId().
UpdatedAvatar(profileInput, currentAvatar, freshId) ==
       Prop("id", MergedId(currentAvatar, freshId))
    @@ Prop("displayName", MergedDisplayName(profileInput, currentAvatar))
    @@ Prop("bio", MergedBio(profileInput, currentAvatar))
    @@ Prop("tone", MergedTone(profileInput, currentAvatar))
    @@ Prop("expertiseTags", MergedExpertiseTags(profileInput, currentAvatar))

\* a plausible slip: setState is given the avatar alone, without ...this.state
SaveAvatarProfileAlone(profileInput) ==
    LET currentAvatar == state.avatar
        updatedAvatar == UpdatedAvatar(profileInput, currentAvatar, nextId)
    IN  /\ state' = Container("object", Some(updatedAvatar), FALSE, <<>>)
        /\ nextId' = IF OptGet(currentAvatar, "id") = Undefined THEN nextId + 1 ELSE nextId
        /\ result' = [op |-> "saveAvatarProfile", success |-> TRUE, avatar |-> updatedAvatar]
        /\ mutatedAt' = renders

\* server.ts:125-144  saveAvatarProfile.  generateId() is evaluated only
\* when the current avatar has no id.
SaveAvatarProfile(profileInput) ==
    LET currentAvatar == state.avatar
        updatedAvatar == UpdatedAvatar(profileInput, currentAvatar, nextId)
    IN  /\ state' = [state EXCEPT !.avatar = Some(updatedAvatar)]
        /\ nextId' = IF OptGet(currentAvatar, "id") = Undefined THEN nextId + 1 ELSE nextId
        /\ result' = [op |-> "saveAvatarProfile", success |-> TRUE, avatar |-> updatedAvatar]
        /\ mutatedAt' = renders

\* a plausible slip: the cap is tested on the length before the append
UpdatedMemoriesLateTrim(memories, newMemory) ==
    LET updatedMemories == Append(memories, newMemory)
    IN  IF Len(memories) > MemoryCap
        THEN SliceLast(updatedMemories, MemoryCap)
        ELSE updatedMemories

\* a plausible slip: over the cap, the item with the oldest createdAt is
\* dropped (the first of them when several are equal)
UpdatedMemoriesByTimestamp(memories, newMemory) ==
    LET updatedMemories == Append(memories, newMemory)
        oldest == CHOOSE i \in DOMAIN updatedMemories :
                    \A j \in DOMAIN updatedMemories :
                        \/ updatedMemories[i].createdAt < updatedMemories[j].createdAt
                        \/ /\ updatedMemories[i].createdAt = updatedMemories[j].createdAt
                           /\ i <= j
    IN  IF Len(updatedMemories) > MemoryCap
        THEN [i \in 1..Len(updatedMemories) - 1 |->
                IF i < oldest THEN updatedMemories[i] ELSE updatedMemories[i + 1]]
        ELSE updatedMemories

\* server.ts:159-165  append, then keep the last 50
UpdatedMemories(memories, newMemory) ==
    LET updatedMemories == Append(memories, newMemory)
    IN  IF Len(updatedMemories) > MemoryCap
        THEN SliceLast(updatedMemories, MemoryCap)
        ELSE updatedMemories

\* a plausible slip: slice(0, 5) in place of slice(-5)
RecentMemoriesOldest(updatedMemories) ==
    SubSeq(updatedMemories, 1,
           IF Len(updatedMemories) < RecentWindow THEN Len(updatedMemories)
           ELSE RecentWindow)

\* server.ts:173  the value saveMemory returns
RecentMemories(updatedMemories) == SliceLast(updatedMemories, RecentWindow)

\* a plausible slip: the memories are read when the call is asked for and
\* written back, with the new item, when it runs
SaveMemoryFromRequest(type, content) ==
    LET newMemory == MemoryItem(nextId, now, type, content)
        asked == {c \in inflight :
                     c.tool = "saveMemory" /\ c.args = [type |-> type, content |-> content]}
        memories == IF asked = {} THEN state.memories ELSE (CHOOSE c \in asked : TRUE).seen
        updatedMemories == UpdatedMemories(memories, newMemory)
    IN  /\ state' = [state EXCEPT !.memories = updatedMemories]
        /\ nextId' = nextId + 1
        /\ appended' = Append(appended, newMemory)
        /\ result' = [op |-> "saveMemory", success |-> TRUE,
                      recentMemories |-> RecentMemories(updatedMemories)]
        /\ mutatedAt' = renders

\* server.ts:149-174  saveMemory
SaveMemory(type, content) ==
    LET newMemory == MemoryItem(nextId, now, type, content)
        updatedMemories == UpdatedMemories(state.memories, newMemory)
    IN  /\ state' = [state EXCEPT !.memories = updatedMemories]
        /\ nextId' = nextId + 1
        /\ appended' = Append(appended, newMemory)
        /\ result' = [op |-> "saveMemory", success |-> TRUE,
                      recentMemories |-> RecentMemories(updatedMemories)]
        /\ mutatedAt' = renders

\* server.ts:197  the snippet is cut after this many characters
SnippetLength == 500

\* what a page is made of: tags and the text between them
Tag(name) == [tag |-> name]
Text(text) == [text |-> text]
IsTag(piece) == "tag" \in DOMAIN piece

\* pages the documentation site may answer with
DocsPage ==
    << Tag("h1"), Text("Agents"), Tag("/h1"), Tag("script"), Text("track()"),
       Tag("/script"), Tag("p"), Text("Build agents"), Tag("/p") >>
NotFoundPage == << Tag("h1"), Text("Not Found"), Tag("/h1") >>

\* server.ts:185-186  what the two awaits of researchWeb can yield: fetch
\* rejects (no connection), or resolves with a response of any status whose
\* text() resolves with the body or rejects
Rejected == [settled |-> "rejected"]
Response(status, text) == [settled |-> "fulfilled", status |-> status, text |-> text]
FetchOutcomes ==
    { Rejected, Response(200, Some(DocsPage)), Response(404, Some(NotFoundPage)),
      Response(200, Undefined) }

\* the position of the first tag called name in html, 0 when there is none
FirstTag(html, name) ==
    LET at == {i \in DOMAIN html : IsTag(html[i]) /\ html[i].tag = name}
    IN  IF at = {} THEN 0 ELSE CHOOSE i \in at : \A j \in at : i <= j

\* server.ts:189-194  the text of a page: script and style elements and all
\* tags removed (pieces of text stand for runs of characters, already
\* trimmed)
RECURSIVE TextContent(_)
TextContent(html) ==
    IF Len(html) = 0 THEN <<>>
    ELSE LET head == html[1]
             rest == Tail(html)
         IN  IF IsTag(head) /\ head.tag \in {"script", "style"}
                         /\ FirstTag(rest, "/" \o head.tag) > 0
             THEN TextContent(SubSeq(rest, FirstTag(rest, "/" \o head.tag) + 1, Len(rest)))
             ELSE IF IsTag(head) THEN TextContent(rest)
             ELSE <<head.text>> \o TextContent(rest)

\* string.substring(0, n), in pieces
Substring(text, n) == IF Len(text) <= n THEN text ELSE SubSeq(text, 1, n)

\* server.ts:179-209  researchWeb: the value it resolves with when its
\* fetch ends as fetched
ResearchWeb(query, fetched) ==
    LET sourceUrl == "https://developers.cloudflare.com/agents/"
    IN  IF fetched.settled = "rejected" \/ fetched.text = Undefined
        THEN [query |-> query,
              snippet |-> <<"Research on \"", query,
                            "\" completed. Cloudflare Agents SDK enables building AI-powered applications with persistent state, real-time communication, and tool integration capabilities.">>,
              sourceUrl |-> sourceUrl]
        ELSE [query |-> query,
              snippet |-> Substring(TextContent(The(fetched.text)), SnippetLength) \o <<"...">>,
              sourceUrl |-> sourceUrl]

----------------------------------------------------------------------------
(* The tools: src/src/tools.ts *)

\* A tool call the model asked for, with the memories the store held when
\* it was asked for (history).
Call(tool, args) == [tool |-> tool, args |-> args, seen |-> state.memories]

NoArgs == [k \in {} |-> k]

\* inflight once a call of tool with args has finished; a call made while
\* none is in flight leaves it as it is
Completed(tool, args) ==
    LET finishing == {c \in inflight : c.tool = tool /\ c.args = args}
    IN  IF finishing = {} THEN inflight
        ELSE inflight \ {CHOOSE c \in finishing : TRUE}

\* tools.ts:76-81  the saveMemory tool's input schema
MemoryInputValid(type, content) == type \in MemoryTypes

\* a plausible slip: the tone is declared z.string(), any text passes
ProfileInputAnyTone(profileInput) == TRUE

\* tools.ts:27-34  the saveAvatarProfile tool's input schema: a tone, when
\* given, is one of the enumeration
ProfileInputValid(profileInput) ==
    "tone" \in DOMAIN profileInput => profileInput.tone \in Tones

\* tools.ts:55-58, 96-99, 135-138, 168-171  the error a tool returns when
\* the call of the agent's method threw error
FailedText(tool, error) ==
    CASE tool = "saveAvatarProfile" -> <<"Failed to update avatar profile: ", error>>
      [] tool = "saveMemory" -> <<"Failed to store memory: ", error>>
      [] tool = "researchWeb" -> <<"Failed to complete research: ", error>>
      [] tool = "getAvatarState" -> <<"Failed to get avatar state: ", error>>

\* a plausible slip: agent is used untested, as the scheduling tools use
\* it, and the TypeError of the call on undefined is caught
NoAgentUntested(tool) == [op |-> tool, error |-> FailedText(tool, "TypeError")]

\* tools.ts:38-40, 85-87, 123-125, 156-158  if (!agent) return { error }
NoAgentResult(tool) == [op |-> tool, error |-> <<"Agent not available">>]

\* tools.ts:20-59  the saveAvatarProfile tool: input that fails the schema
\* never reaches execute
ToolSaveAvatarProfile(profileInput) ==
    /\ started /\ ~threw
    /\ IF ~ProfileInputValid(profileInput)
       THEN /\ result' = [op |-> "saveAvatarProfile", error |-> <<"invalid input">>]
            /\ UNCHANGED <<state, nextId, mutatedAt>>
       ELSE IF ~agent
       THEN /\ result' = NoAgentResult("saveAvatarProfile")
            /\ UNCHANGED <<state, nextId, mutatedAt>>
       ELSE SaveAvatarProfile(profileInput)
    /\ inflight' = Completed("saveAvatarProfile", profileInput)
    /\ UNCHANGED <<agent, schedules, turn, started, threw, now, jumps, renders, appended>>

\* tools.ts:76-101  the saveMemory tool: input that fails the schema never
\* reaches execute
ToolSaveMemory(type, content) ==
    /\ started /\ ~threw
    /\ IF ~MemoryInputValid(type, content)
       THEN /\ result' = [op |-> "saveMemory", error |-> <<"invalid input">>]
            /\ UNCHANGED <<state, nextId, appended, mutatedAt>>
       ELSE IF ~agent
       THEN /\ result' = NoAgentResult("saveMemory")
            /\ UNCHANGED <<state, nextId, appended, mutatedAt>>
       ELSE SaveMemory(type, content)
    /\ inflight' = Completed("saveMemory", [type |-> type, content |-> content])
    /\ UNCHANGED <<agent, schedules, turn, started, threw, now, jumps, renders>>

\* tools.ts:150-172  the getAvatarState tool
ToolGetAvatarState ==
    /\ started /\ ~threw
    /\ IF ~agent
       THEN result' = NoAgentResult("getAvatarState")
       ELSE LET s == GetAvatarState(state) IN
            result' = [op |-> "getAvatarState", success |-> TRUE,
                       avatar |-> s.avatar, recentMemories |-> s.memories]
    /\ inflight' = Completed("getAvatarState", NoArgs)
    /\ UNCHANGED <<agent, schedules, turn, state, started, threw, nextId, now, jumps, renders, appended,
                   mutatedAt>>

\* tools.ts:112-140  the researchWeb tool returns, the fetch of the agent's
\* researchWeb having ended as fetched
ToolResearchWeb(query, fetched) ==
    /\ started /\ ~threw
    /\ IF ~agent
       THEN result' = NoAgentResult("researchWeb")
       ELSE LET r == ResearchWeb(query, fetched) IN
            result' = [op |-> "researchWeb", success |-> TRUE,
                       message |-> <<"Research completed for: \"", query, "\"">>,
                       query |-> r.query, snippet |-> r.snippet, sourceUrl |-> r.sourceUrl]
    /\ inflight' = Completed("researchWeb", [query |-> query])
    /\ UNCHANGED <<agent, schedules, turn, state, started, threw, nextId, now, jumps, renders, appended,
                   mutatedAt>>

\* tools.ts:36, 83, 121, 154, 185  the tools are called in another context:
\* getCurrentAgent() finds the agent, or does not
ContextChanges ==
    /\ agent' = ~agent
    /\ UNCHANGED <<state, started, threw, result, nextId, now, jumps, renders,
                   appended, inflight, mutatedAt, schedules, turn>>

\* tools.ts:43-58  this.setState throws while saveAvatarProfile runs (the
\* write to the agent's storage fails): the state is replaced or not, the
\* tool catches the error
ToolSaveAvatarProfileThrows(profileInput) ==
    /\ started /\ ~threw
    /\ agent /\ ProfileInputValid(profileInput)
    /\ LET currentAvatar == state.avatar
           updatedAvatar == UpdatedAvatar(profileInput, currentAvatar, nextId)
       IN  /\ \E replaced \in BOOLEAN :
                 /\ state' = IF replaced THEN [state EXCEPT !.avatar = Some(updatedAvatar)]
                             ELSE state
                 /\ mutatedAt' = IF replaced THEN renders ELSE mutatedAt
           /\ nextId' = IF OptGet(currentAvatar, "id") = Undefined THEN nextId + 1
                        ELSE nextId
    /\ result' = [op |-> "saveAvatarProfile",
                  error |-> FailedText("saveAvatarProfile", "Error")]
    /\ inflight' = Completed("saveAvatarProfile", profileInput)
    /\ UNCHANGED <<started, threw, now, jumps, renders, appended, schedules, turn, agent>>

\* tools.ts:89-99  this.setState throws while saveMemory runs
ToolSaveMemoryThrows(type, content) ==
    /\ started /\ ~threw
    /\ agent /\ MemoryInputValid(type, content)
    /\ LET newMemory == MemoryItem(nextId, now, type, content)
           updatedMemories == UpdatedMemories(state.memories, newMemory)
       IN  \E replaced \in BOOLEAN :
             /\ state' = IF replaced THEN [state EXCEPT !.memories = updatedMemories]
                         ELSE state
             /\ appended' = IF replaced THEN Append(appended, newMemory) ELSE appended
             /\ mutatedAt' = IF replaced THEN renders ELSE mutatedAt
    /\ nextId' = nextId + 1
    /\ result' = [op |-> "saveMemory", error |-> FailedText("saveMemory", "Error")]
    /\ inflight' = Completed("saveMemory", [type |-> type, content |-> content])
    /\ UNCHANGED <<started, threw, now, jumps, renders, schedules, turn, agent>>

\* agents/schedule scheduleSchema  what a model may send as when; the
\* date and the number of seconds are written as the returned text shows them
ScheduleInputs ==
    { [type |-> "no-schedule"],
      [type |-> "scheduled", date |-> "2030-01-01"],
      [type |-> "delayed", delayInSeconds |-> "60"],
      [type |-> "cron", cron |-> "0 9 * * *"] }

\* tools.ts:201-206  how a call of agent.schedule can end: its promise fulfils,
\* it throws before returning, or it returns a promise that rejects
ScheduleOutcomes == {"fulfils", "throws", "rejects"}

\* tools.ts:193-200  the value handed to the scheduler
ScheduleValue(when) ==
    CASE when.type = "scheduled" -> when.date
      [] when.type = "delayed" -> when.delayInSeconds
      [] when.type = "cron" -> when.cron

\* tools.ts:181-209  the scheduleTask tool.  agent.schedule is not awaited:
\* the catch block sees what is thrown before it returns (the TypeError of
\* a call on an absent agent among it), not the rejection of its promise.
ToolScheduleTask(when, description, outcome) ==
    /\ started /\ ~threw
    /\ IF when.type = "no-schedule"
       THEN /\ result' = [op |-> "scheduleTask", value |-> <<"Not a valid schedule input">>]
            /\ schedules' = schedules
       ELSE LET input == ScheduleValue(when) IN
            IF ~agent
            THEN /\ result' = [op |-> "scheduleTask",
                               value |-> <<"Error scheduling task: ", "TypeError">>]
                 /\ schedules' = schedules
            ELSE /\ schedules' = Append(schedules,
                                        [input |-> input, callback |-> "executeTask",
                                         payload |-> description, outcome |-> outcome])
                 /\ result' = [op |-> "scheduleTask",
                               value |-> IF outcome = "throws"
                                         THEN <<"Error scheduling task: ", "Error">>
                                         ELSE <<"Task scheduled for type \"", when.type,
                                                "\" : ", input>>]
    /\ UNCHANGED <<state, started, threw, nextId, now, jumps, renders, appended,
                   inflight, mutatedAt, turn, agent>>

\* the wall clock is set: the next timestamp may equal, precede or follow
\* the last one
ClockJump ==
    /\ jumps < MaxClockJumps
    /\ jumps' = jumps + 1
    /\ now' \in ClockValues \ {now}
    /\ UNCHANGED <<agent, schedules, turn, state, started, threw, result, nextId, renders, appended,
                   inflight, mutatedAt>>

----------------------------------------------------------------------------
(* The system prompt: src/src/server.ts *)

\* clock ticks in a day: toLocaleDateString() keeps the day of a timestamp
TicksPerDay == 2

\* server.ts:232  new Date(mem.createdAt).toLocaleDateString()
LocaleDate(createdAt) == createdAt \div TicksPerDay

\* a value inside a template literal: undefined prints as "undefined"
Template(m) == IF m = Undefined THEN "undefined" ELSE The(m)

\* array.join(", "), as the sequence of its pieces
RECURSIVE Join(_)
Join(tags) ==
    IF Len(tags) = 0 THEN <<>>
    ELSE IF Len(tags) = 1 THEN <<tags[1]>>
    ELSE <<tags[1], ", ">> \o Join(Tail(tags))

\* a plausible slip: the bio is printed as stored, without its placeholder
AvatarLinesRawBio(avatar) ==
    IF avatar # Undefined
    THEN LET a == The(avatar) IN
         << <<"- Name: ", Template(Get(a, "displayName"))>>,
            <<"- Bio: ", Template(Get(a, "bio"))>>,
            <<"- Tone: ", Template(Get(a, "tone"))>>,
            <<"- Expertise: ">> \o
                (IF Len(a.expertiseTags) > 0 THEN Join(a.expertiseTags)
                 ELSE <<"None specified">>) >>
    ELSE << <<"- No avatar profile set yet. The user can create one.">> >>

\* server.ts:220-227  the avatar lines of the context
AvatarLines(avatar) ==
    IF avatar # Undefined
    THEN LET a == The(avatar) IN
         << <<"- Name: ", Template(Get(a, "displayName"))>>,
            <<"- Bio: ", The(OrStr(Get(a, "bio"), Some("Not set")))>>,
            <<"- Tone: ", Template(Get(a, "tone"))>>,
            <<"- Expertise: ">> \o
                (IF Len(a.expertiseTags) > 0 THEN Join(a.expertiseTags)
                 ELSE <<"None specified">>) >>
    ELSE << <<"- No avatar profile set yet. The user can create one.">> >>

\* server.ts:230-236  the memory lines of the context
MemoryLines(recentMemories) ==
    IF Len(recentMemories) > 0
    THEN [i \in 1..Len(recentMemories) |->
            LET mem == recentMemories[i] IN
            <<"- [", mem.type, "] ", mem.content, " (", LocaleDate(mem.createdAt), ")">>]
    ELSE << <<"- No memories stored yet.">> >>

\* a plausible slip: the context takes the window of getAvatarState
BuildContextStringRecentWindow(s) ==
    LET avatar == s.avatar
        recentMemories == SliceLast(s.memories, RecentWindow)
    IN  << <<"## Current Avatar State">> >> \o AvatarLines(avatar)
        \o << <<"">>, <<"## Recent Memories">> >> \o MemoryLines(recentMemories)

\* server.ts:214-239  buildContextString, as a sequence of lines
BuildContextString(s) ==
    LET avatar == s.avatar
        recentMemories == SliceLast(s.memories, ContextWindow)
    IN  << <<"## Current Avatar State">> >> \o AvatarLines(avatar)
        \o << <<"">>, <<"## Recent Memories">> >> \o MemoryLines(recentMemories)

\* server.ts:246-251  toneInstructions
toneInstructions ==
    [casual |-> "Be friendly, relaxed, and approachable. Use conversational language.",
     professional |-> "Be formal, precise, and business-like. Maintain a professional demeanor.",
     playful |-> "Be fun, energetic, and use humor when appropriate. Keep things light.",
     technical |-> "Be detailed, accurate, and use technical terminology. Focus on precision."]

\* a plausible slip: the prompt carries a counter kept outside the state
GetSystemPromptCounting(s, date) ==
    LET tone == The(OrStr(OptGet(s.avatar, "tone"), Some("casual")))
    IN  [tone |-> tone,
         toneInstruction |-> Template(Get(toneInstructions, tone)),
         scheduleDate |-> date,
         context |-> BuildContextString(s) \o << <<"turn ", renders>> >>]

\* a plausible slip: the prompt reads this.initialState, not this.state
GetSystemPromptOfInitial(s, date) ==
    LET tone == The(OrStr(OptGet(initialState.avatar, "tone"), Some("casual")))
    IN  [tone |-> tone,
         toneInstruction |-> Template(Get(toneInstructions, tone)),
         scheduleDate |-> date,
         context |-> BuildContextString(initialState)]

\* server.ts:244-276  getSystemPrompt: the parts of the text that vary, built
\* from the state s at the time date
GetSystemPrompt(s, date) ==
    LET tone == The(OrStr(OptGet(s.avatar, "tone"), Some("casual")))
    IN  [tone |-> tone,
         toneInstruction |-> Template(Get(toneInstructions, tone)),
         scheduleDate |-> date,
         context |-> BuildContextString(s)]

\* server.ts:224  avatar.expertiseTags.length throws when the field is undefined
ContextThrows(s) ==
    s.avatar # Undefined /\ Get(The(s.avatar), "expertiseTags") = Undefined

\* server.ts:282-323  onChatMessage: the system prompt of a chat turn is
\* built from this.state and streamText starts its loop of model steps
OnChatMessage ==
    /\ started /\ ~threw
    /\ renders < MaxRenders
    /\ renders' = renders + 1
    /\ IF ContextThrows(state)
       THEN /\ threw' = TRUE
            /\ result' = [op |-> "getSystemPrompt"]
       ELSE /\ threw' = threw
            /\ result' = [op |-> "getSystemPrompt", text |-> GetSystemPrompt(state, now)]
    /\ turn' = [running |-> ~ContextThrows(state), steps |-> 0, calls |-> 0]
    /\ UNCHANGED <<agent, schedules, state, started, nextId, now, jumps, appended, inflight, mutatedAt>>

\* server.ts:307-314  a step of streamText in which the model asks for a
\* tool call: the call is in flight until its execute has returned
RequestCall(tool, args) ==
    /\ started /\ ~threw
    /\ Cardinality(inflight) < MaxInflight
    /\ inflight' = inflight \cup {Call(tool, args)}
    /\ UNCHANGED <<agent, schedules, turn, state, started, threw, result, nextId, now, jumps, renders,
                   appended, mutatedAt>>

----------------------------------------------------------------------------
(* The streamText loop of a chat turn *)

\* a loop that stops one step late
StepAllowedOffByOne(steps) == steps <= StepLimit

\* server.ts:315  stepCountIs(10): another model step is taken only while
\* fewer than ten are done
StepAllowed(steps) == steps < StepLimit

\* server.ts:309-316  one step of streamText: the model is called once the
\* tool calls of the step before have returned, and answers with text (the
\* turn is over) or with tool calls, which are then in flight
ModelStep(calls) ==
    /\ started /\ ~threw
    /\ turn.running
    /\ inflight = {}
    /\ StepAllowed(turn.steps)
    /\ Cardinality(calls) <= MaxInflight
    /\ inflight' = {Call(c.tool, c.args) : c \in calls}
    /\ turn' = [running |-> calls # {},
                steps |-> turn.steps + 1,
                calls |-> turn.calls + Cardinality(calls)]
    /\ UNCHANGED <<agent, schedules, state, started, threw, result, nextId, now, jumps,
                   renders, appended, mutatedAt>>

\* server.ts:315  the stop condition holds once the tool calls of the last
\* allowed step have returned: streamText finishes without calling the model
TurnStops ==
    /\ started /\ ~threw
    /\ turn.running
    /\ inflight = {}
    /\ ~StepAllowed(turn.steps)
    /\ turn' = [turn EXCEPT !.running = FALSE]
    /\ UNCHANGED <<agent, schedules, state, started, threw, result, nextId, now, jumps,
                   renders, appended, inflight, mutatedAt>>

----------------------------------------------------------------------------
(* Values handed out: what a caller holds after a call returns *)

\* server.ts:117, 143  getAvatarState returns this.state.avatar and
\* saveAvatarProfile returns the updatedAvatar it gave to setState: the
\* avatar a caller holds is the stored object, not a copy of it
ReturnsStoredAvatar == TRUE

\* server.ts:118, 173  slice(-5) makes a new array of the same items: the
\* items a caller holds are the stored objects, in an array of its own
ReturnsStoredItems == TRUE

\* the avatar in the last return value, undefined when it has none
HeldAvatar ==
    IF result.op = "getAvatarState" THEN result.avatar
    ELSE IF result.op = "saveAvatarProfile" /\ "avatar" \in DOMAIN result
         THEN Some(result.avatar)
         ELSE Undefined

\* the memory items in the last return value
HeldItems ==
    IF result.op \in {"getAvatarState", "saveMemory"} /\ "recentMemories" \in DOMAIN result
    THEN result.recentMemories
    ELSE <<>>

\* tools.ts:50-54, 162-167  the caller of a tool assigns to a field of the
\* avatar it was handed
CallerWritesAvatar ==
    /\ started /\ ~threw
    /\ HeldAvatar # Undefined
    /\ LET written == [The(HeldAvatar) EXCEPT !.displayName = "Mallory"] IN
         /\ result' = [result EXCEPT !.avatar =
                           IF result.op = "getAvatarState" THEN Some(written) ELSE written]
         /\ state' = IF ReturnsStoredAvatar
                     THEN [state EXCEPT !.avatar = Some(written)]
                     ELSE state
    /\ UNCHANGED <<agent, schedules, turn, started, threw, nextId, now, jumps, renders, appended, inflight,
                   mutatedAt>>

\* tools.ts:91-95, 162-167  the caller of a tool assigns to a field of the
\* newest memory item it was handed
CallerWritesItem ==
    /\ started /\ ~threw
    /\ Len(HeldItems) > 0
    /\ LET i == Len(HeldItems)
           written == [HeldItems[i] EXCEPT !.content = "edited"]
       IN  /\ result' = [result EXCEPT !.recentMemories[i] = written]
           /\ state' = IF ReturnsStoredItems
                       THEN [state EXCEPT !.memories[Len(state.memories)] = written]
                       ELSE state
    /\ UNCHANGED <<agent, schedules, turn, started, threw, nextId, now, jumps, renders, appended, inflight,
                   mutatedAt>>

----------------------------------------------------------------------------
(* Specifications *)

\* calls of saveMemory that stored an item since the agent started
AppendsThisRun == Cardinality({i \in DOMAIN appended : appended[i].id >= FirstFreshId})

\* calls of saveMemory in flight
AppendsInFlight == Cardinality({c \in inflight : c.tool = "saveMemory"})

\* the tool calls the model asks for in SpecTurn
TurnCalls ==
    { [tool |-> "saveAvatarProfile", args |-> [displayName |-> "Alex"]],
      [tool |-> "saveAvatarProfile", args |-> [tone |-> "professional"]],
      [tool |-> "saveMemory", args |-> [type |-> "note", content |-> "m"]],
      [tool |-> "saveMemory", args |-> [type |-> "task", content |-> "m"]],
      [tool |-> "getAvatarState", args |-> NoArgs],
      [tool |-> "researchWeb", args |-> [query |-> "agents"]] }

\* the store: every profile input, a few memories
Next ==
    \/ OnStart
    \/ \E profileInput \in ProfileInputs : ToolSaveAvatarProfile(profileInput)
    \/ /\ AppendsThisRun < MaxAppends
       /\ \E type \in TypeInputs, content \in ContentInputs : ToolSaveMemory(type, content)
    \/ ToolGetAvatarState

Spec == Init /\ [][Next]_vars

\* a fresh agent whose memory log is filled past its cap
InitFill == Init /\ state = initialState

NextFill ==
    \/ OnStart
    \/ /\ AppendsThisRun < MaxFill
       /\ \E type \in {"note", "reminder"} : ToolSaveMemory(type, "m")
    \/ ToolGetAvatarState
    \/ ClockJump

SpecFill == InitFill /\ [][NextFill]_vars

\* chat turns: the system prompt is built between updates of the store
NextChat ==
    \/ OnStart
    \/ \E profileInput \in ChatProfileInputs : ToolSaveAvatarProfile(profileInput)
    \/ /\ AppendsThisRun < MaxChatAppends
       /\ \E type \in {"note", "task"} : ToolSaveMemory(type, "m")
    \/ ToolGetAvatarState
    \/ \E fetched \in {Rejected, Response(200, Some(DocsPage))} :
          ToolResearchWeb("agents", fetched)
    \/ OnChatMessage
    \/ ClockJump

SpecChat == Init /\ [][NextChat]_vars

\* the steps of a chat turn of a fresh agent: the tool calls the model asked
\* for are in flight together and finish in any order
NextTurn ==
    \/ OnStart
    \/ \E call \in TurnCalls :
          /\ call.tool = "saveMemory" => AppendsThisRun + AppendsInFlight < MaxAppends
          /\ RequestCall(call.tool, call.args)
    \/ \E c \in inflight : c.tool = "saveAvatarProfile" /\ ToolSaveAvatarProfile(c.args)
    \/ \E c \in inflight :
          c.tool = "saveMemory" /\ ToolSaveMemory(c.args.type, c.args.content)
    \/ \E c \in inflight : c.tool = "getAvatarState" /\ ToolGetAvatarState
    \/ \E c \in inflight, fetched \in FetchOutcomes :
          c.tool = "researchWeb" /\ ToolResearchWeb(c.args.query, fetched)

SpecTurn == InitFill /\ [][NextTurn]_vars

\* the store and a caller that writes to what the tools returned to it
NextAlias ==
    \/ OnStart
    \/ \E profileInput \in ChatProfileInputs : ToolSaveAvatarProfile(profileInput)
    \/ /\ AppendsThisRun < MaxChatAppends
       /\ ToolSaveMemory("note", "m")
    \/ ToolGetAvatarState
    \/ CallerWritesAvatar
    \/ CallerWritesItem

SpecAlias == Init /\ [][NextAlias]_vars

\* ids generateId() has handed out in this run
IdsThisRun == nextId - FirstFreshId

\* the tools called in and out of the agent's context, over a storage whose
\* writes may fail
NextTool ==
    \/ OnStart
    \/ ContextChanges
    \/ ToolSaveAvatarProfile([displayName |-> "Alex"])
    \/ /\ IdsThisRun < MaxAppends
       /\ ToolSaveMemory("note", "m")
    \/ ToolGetAvatarState
    \/ \E fetched \in {Rejected, Response(200, Some(DocsPage))} :
          ToolResearchWeb("agents", fetched)
    \/ /\ IdsThisRun < MaxAppends
       /\ ToolSaveAvatarProfileThrows([displayName |-> "Alex"])
    \/ /\ IdsThisRun < MaxAppends
       /\ ToolSaveMemoryThrows("note", "m")
    \/ /\ Len(schedules) < MaxSchedules
       /\ \E when \in ScheduleInputs, outcome \in ScheduleOutcomes :
             ToolScheduleTask(when, "stand-up", outcome)

SpecTool == Init /\ [][NextTool]_vars

\* the tool calls a model step may ask for
LoopCalls ==
    { [tool |-> "saveMemory", args |-> [type |-> "note", content |-> "m"]],
      [tool |-> "getAvatarState", args |-> NoArgs] }

\* a tool call in flight returns
LoopToolReturns ==
    \/ \E c \in inflight :
          c.tool = "saveMemory" /\ ToolSaveMemory(c.args.type, c.args.content)
    \/ \E c \in inflight : c.tool = "getAvatarState" /\ ToolGetAvatarState

\* the model is called, or the loop finds its stop condition met
LoopAdvances == (\E calls \in SUBSET LoopCalls : ModelStep(calls)) \/ TurnStops

\* chat turns of a fresh agent, one at a time: each is a loop of model steps
\* and of the tool calls they ask for
NextLoop ==
    \/ OnStart
    \/ /\ ~turn.running
       /\ OnChatMessage
    \/ \E calls \in SUBSET LoopCalls : ModelStep(calls)
    \/ TurnStops
    \/ \E c \in inflight :
          c.tool = "saveMemory" /\ ToolSaveMemory(c.args.type, c.args.content)
    \/ \E c \in inflight : c.tool = "getAvatarState" /\ ToolGetAvatarState

\* the promises streamText awaits settle: a model call that can be made is
\* made, and the execute of a tool call in flight returns
SpecLoop ==
    /\ InitFill
    /\ [][NextLoop]_vars
    /\ WF_vars(LoopAdvances)
    /\ WF_vars(LoopToolReturns)

----------------------------------------------------------------------------
(* Properties *)

\* the last min(n, Len(s)) items of s, in order
LastItems(s, n) ==
    LET k == IF Len(s) < n THEN Len(s) ELSE n
    IN  [i \in 1..k |-> s[Len(s) - k + i]]

\* the id of the stored avatar, undefined when there is none
AvatarId(s) == OptGet(s.avatar, "id")

\* a step of the saveAvatarProfile tool: the last result is its return value
\* and the step is not one of the clock
IsSaveAvatarProfile == result'.op = "saveAvatarProfile" /\ now' = now

\* the value the specification gives a field when nothing supplies one
HardDefault(f) ==
    CASE f = "displayName" -> "Unnamed Avatar"
      [] f = "bio" -> ""
      [] f = "tone" -> "casual"
      [] f = "expertiseTags" -> <<>>

\* field f of P is present and non-empty
PresentNonEmpty(P, f) ==
    /\ f \in DOMAIN P
    /\ IF f = "expertiseTags" THEN P[f] # <<>> ELSE P[f] # ""

\* P's value if present and non-empty, else A's prior value, else the default
ClaimedValue(P, A, f) ==
    IF PresentNonEmpty(P, f) THEN P[f]
    ELSE IF A # Undefined THEN The(A)[f]
    ELSE HardDefault(f)

\* C1: saveAvatarProfile(P) returns and stores a profile in which each of
\* displayName, bio, tone and expertiseTags is P's value if present and
\* non-empty, else the stored avatar's prior value, else the hard default.
C1_MergeAsClaimed ==
    [][\A P \in ProfileInputs :
          ToolSaveAvatarProfile(P) =>
            \A f \in ProfileFields :
                /\ result'.avatar[f] = ClaimedValue(P, state.avatar, f)
                /\ The(state'.avatar)[f] = ClaimedValue(P, state.avatar, f)]_vars

\* C2: once an avatar has an id, every later step keeps that id, every
\* saveAvatarProfile returns it and draws no new id; an id is generated only
\* when no avatar exists, and it is a fresh one.
C2_IdStable ==
    [][/\ (started /\ AvatarId(state) # Undefined) =>
            /\ AvatarId(state') = AvatarId(state)
            /\ result'.op = "saveAvatarProfile" => Get(result'.avatar, "id") = AvatarId(state)
            /\ IsSaveAvatarProfile => nextId' = nextId
       /\ (AvatarId(state) = Undefined /\ IsSaveAvatarProfile) =>
            /\ AvatarId(state') = Some(nextId)
            /\ Get(result'.avatar, "id") = Some(nextId)]_vars

\* an avatar was created, then a memory was stored, then the profile was
\* saved again
C2_Witness ==
    /\ result.op = "saveAvatarProfile"
    /\ AvatarId(state) = Some(FirstFreshId)
    /\ nextId = FirstFreshId + 2
    /\ Len(state.memories) = 1
    /\ state.memories[1].id = FirstFreshId + 1
    /\ The(state.avatar).displayName = "Alex"
    /\ The(state.avatar).tone = "professional"

\* C3: the stored memory sequence never holds more than 50 items.
C3_MemoryCap == Len(state.memories) <= 50

\* the 52nd saveMemory has returned and 50 items are stored
C3_Witness ==
    /\ result.op = "saveMemory"
    /\ "recentMemories" \in DOMAIN result
    /\ AppendsThisRun = 52
    /\ Len(state.memories) = 50

\* C4: after n calls of saveMemory the stored sequence is the last
\* min(n, 50) appended items in insertion order, whatever their createdAt.
C4_FifoByInsertion == state.memories = LastItems(appended, 50)

\* 52 items were appended, the clock went back between two of them, and the
\* stored sequence starts at the third
C4_Witness ==
    /\ Len(appended) = 52
    /\ Len(state.memories) = 50
    /\ state.memories[1] = appended[3]
    /\ \E i, j \in DOMAIN appended :
          /\ i < j
          /\ appended[i].createdAt > appended[j].createdAt
    /\ \E i, j \in DOMAIN appended :
          /\ i < j
          /\ appended[i].createdAt = appended[j].createdAt

\* C5: what saveMemory returns is the last min(5, L) items of the sequence
\* it stored (L its length), in order, ending with the item just appended.
C5_ReturnsRecent ==
    (result.op = "saveMemory" /\ "recentMemories" \in DOMAIN result) =>
        /\ result.recentMemories = LastItems(state.memories, 5)
        /\ Len(result.recentMemories) =
              (IF Len(state.memories) < 5 THEN Len(state.memories) ELSE 5)
        /\ result.recentMemories[Len(result.recentMemories)] = appended[Len(appended)]

\* the 52nd saveMemory returned items 48 to 52
C5_Witness ==
    /\ result.op = "saveMemory"
    /\ "recentMemories" \in DOMAIN result
    /\ Len(appended) = 52
    /\ Len(result.recentMemories) = 5
    /\ \A i \in 1..5 : result.recentMemories[i] = appended[47 + i]

\* a sequence t is a suffix of s
IsSuffix(t, s) ==
    /\ Len(t) <= Len(s)
    /\ \A i \in 1..Len(t) : t[i] = s[Len(s) - Len(t) + i]

\* C6: getAvatarState returns the stored avatar (or its absence) and at most
\* 5 memories, the last min(5, length) of the stored sequence in order.
C6_Snapshot ==
    /\ started /\ ~threw =>
          LET snapshot == GetAvatarState(state) IN
          /\ snapshot.avatar = state.avatar
          /\ Len(snapshot.memories) <= 5
          /\ IsSuffix(snapshot.memories, state.memories)
          /\ snapshot.memories = LastItems(state.memories, 5)
    /\ result.op = "getAvatarState" =>
          /\ result.avatar = state.avatar
          /\ Len(result.recentMemories) <= 5
          /\ IsSuffix(result.recentMemories, state.memories)
          /\ result.recentMemories = LastItems(state.memories, 5)

\* a snapshot of a state with an updated avatar and more than 5 memories
C6_Witness ==
    /\ result.op = "getAvatarState"
    /\ Len(state.memories) = 8
    /\ Len(result.recentMemories) = 5
    /\ result.recentMemories[1] = state.memories[4]
    /\ result.avatar # Undefined
    /\ The(result.avatar).displayName = "Alex"

\* C7: once an avatar exists, it holds a value for each of id, displayName,
\* bio, tone and expertiseTags, and so does every profile returned.
C7_ProfileComplete ==
    /\ state.avatar # Undefined => DOMAIN The(state.avatar) = AvatarFields
    /\ result.op = "saveAvatarProfile" => DOMAIN result.avatar = AvatarFields

\* a profile saved on an empty state from an input that supplied nothing
\* usable
C7_Witness ==
    /\ result.op = "saveAvatarProfile"
    /\ result.avatar = Avatar(FirstFreshId, "Unnamed Avatar", "", "casual", <<>>)
    /\ state.avatar = Some(result.avatar)

\* C8: a saveMemory request with blank content or a type outside
\* {task, preference, note} leaves the stored memories unchanged, and no
\* item with blank content is ever stored.
C8_BlankRejected ==
    [][/\ \A type \in TypeInputs, content \in ContentInputs :
            (ToolSaveMemory(type, content) /\ (content = "" \/ type \notin MemoryTypes))
                => state'.memories = state.memories
       /\ \A i \in DOMAIN state'.memories : state'.memories[i].content # ""]_vars

\* C9: onStart turns an absent or non-object state into the initial state,
\* resets only memories when that field is not an array (the avatar is
\* kept), leaves a well-formed state unchanged, and never throws.
C9_OnStartHeals ==
    [][(~started /\ started') =>
          /\ ~threw'
          /\ state.kind # "object" => state' = initialState
          /\ (state.kind = "object" /\ ~state.memIsArray) =>
                /\ state'.kind = "object"
                /\ state'.avatar = state.avatar
                /\ state'.memIsArray
                /\ state'.memories = <<>>
          /\ (state.kind = "object" /\ state.memIsArray) => state' = state]_vars

\* onStart has repaired a state whose memories field was not an array and
\* which held an avatar
C9_Witness ==
    /\ started
    /\ result.op = "onStart"
    /\ state = Container("object", Some(StoredAvatar), TRUE, <<>>)

PromptBuilt == result.op = "getSystemPrompt" /\ "text" \in DOMAIN result

\* the lines of a context block that follow its memories heading
MemorySection(context) ==
    LET heading == CHOOSE i \in DOMAIN context :
                       Len(context[i]) = 1 /\ context[i][1] = "## Recent Memories"
    IN  SubSeq(context, heading + 1, Len(context))

\* C11: the context block of a system prompt lists exactly the last
\* min(3, length) stored memories, oldest first, each line carrying the
\* item's type tag and content; with no stored memory the block has the
\* single line "- No memories stored yet." and no memory line.
C11_ContextMemories ==
    PromptBuilt =>
        LET section == MemorySection(result.text.context)
            len == Len(state.memories)
            n == IF len < 3 THEN len ELSE 3
        IN  IF len = 0
            THEN section = << <<"- No memories stored yet.">> >>
            ELSE /\ Len(section) = n
                 /\ \A i \in 1..n :
                        LET item == state.memories[len - n + i] IN
                        /\ Len(section[i]) = 7
                        /\ section[i][1] = "- ["
                        /\ section[i][2] = item.type
                        /\ section[i][4] = item.content

\* a prompt built over seven stored memories shows the last three: two
\* from the earlier run, then the one this run added
C11_Witness ==
    /\ PromptBuilt
    /\ Len(state.memories) = 7
    /\ LET section == MemorySection(result.text.context) IN
       /\ Len(section) = 3
       /\ section[1][4] = "m0"
       /\ section[2][4] = "m0"
       /\ section[3][2] = "task"
       /\ section[3][4] = "m"

\* a context block has a line made of the single piece text
HasLine(context, text) ==
    \E i \in DOMAIN context : Len(context[i]) = 1 /\ context[i][1] = text

\* the pieces of tags joined by ", "
CommaJoined(tags) ==
    [i \in 1..(2 * Len(tags) - 1) |->
        IF i % 2 = 1 THEN tags[(i + 1) \div 2] ELSE ", "]

\* C12: on the initial state getAvatarState returns no avatar and no
\* memories and the system prompt carries both the no-avatar and the
\* no-memories line; once an avatar is stored the no-avatar line is never
\* rendered and the block shows the name, the bio ("Not set" when empty),
\* the tone and the tags joined by ", " ("None specified" when there is none).
C12_EmptyAndProfileLines ==
    /\ (result.op = "getAvatarState" /\ state = initialState) =>
          /\ result.avatar = Undefined
          /\ result.recentMemories = <<>>
    /\ PromptBuilt =>
          LET context == result.text.context IN
          /\ state = initialState =>
                /\ HasLine(context, "- No avatar profile set yet. The user can create one.")
                /\ HasLine(context, "- No memories stored yet.")
          /\ state.avatar # Undefined =>
                LET a == The(state.avatar) IN
                /\ ~HasLine(context, "- No avatar profile set yet. The user can create one.")
                /\ context[2] = <<"- Name: ", a.displayName>>
                /\ context[3] = <<"- Bio: ", IF a.bio = "" THEN "Not set" ELSE a.bio>>
                /\ context[4] = <<"- Tone: ", a.tone>>
                /\ context[5] = <<"- Expertise: ">> \o
                        (IF a.expertiseTags = <<>> THEN <<"None specified">>
                         ELSE CommaJoined(a.expertiseTags))

\* a prompt built for an avatar that has a name but neither bio nor tags
C12_Witness ==
    /\ PromptBuilt
    /\ state.avatar # Undefined
    /\ The(state.avatar).bio = ""
    /\ The(state.avatar).expertiseTags = <<>>
    /\ result.text.context[3] = <<"- Bio: ", "Not set">>
    /\ result.text.context[5] = <<"- Expertise: ", "None specified">>

\* PROMPTS.md:39-48  the instruction text of each tone
ToneText(tone) ==
    CASE tone = "casual" ->
            "Be friendly, relaxed, and approachable. Use conversational language."
      [] tone = "professional" ->
            "Be formal, precise, and business-like. Maintain a professional demeanor."
      [] tone = "playful" ->
            "Be fun, energetic, and use humor when appropriate. Keep things light."
      [] tone = "technical" ->
            "Be detailed, accurate, and use technical terminology. Focus on precision."

\* C15: the tone of every system prompt built is one of casual,
\* professional, playful and technical, casual when no avatar is stored and
\* the avatar's tone otherwise, and the instruction put in the prompt is the
\* fixed text of that tone, never a missing entry.
C15_ToneTotal ==
    PromptBuilt =>
        LET text == result.text IN
        /\ text.tone \in {"casual", "professional", "playful", "technical"}
        /\ state.avatar = Undefined => text.tone = "casual"
        /\ state.avatar # Undefined => text.tone = The(state.avatar).tone
        /\ text.toneInstruction # "undefined"
        /\ text.toneInstruction = ToneText(text.tone)

\* a second prompt, built for an avatar whose tone a chat set to
\* technical
C15_Witness ==
    /\ PromptBuilt
    /\ renders = 2
    /\ state.avatar # Undefined
    /\ The(state.avatar).tone = "technical"
    /\ result.text.toneInstruction = ToneText("technical")

\* a fetch that failed: no response, a response whose status is not 2xx,
\* or a body that could not be read
FetchFailed(fetched) ==
    \/ fetched.settled = "rejected"
    \/ fetched.status \notin 200..299
    \/ fetched.text = Undefined

\* the snippet is the fallback text written for query
IsFallback(snippet, query) ==
    /\ Len(snippet) = 3
    /\ snippet[1] = "Research on \""
    /\ snippet[2] = query

\* C13: whatever the fetch yields, researchWeb returns a result, not an
\* error, whose query is the query asked and whose sourceUrl is the fixed
\* address; when the fetch failed (no response, a status that is not 2xx, an
\* unreadable body) the snippet is the fallback text carrying the query.
C13_ResearchFallsBack ==
    [][\A c \in inflight, fetched \in FetchOutcomes :
          (c.tool = "researchWeb" /\ ToolResearchWeb(c.args.query, fetched)) =>
              /\ "error" \notin DOMAIN result'
              /\ result'.query = c.args.query
              /\ result'.sourceUrl = "https://developers.cloudflare.com/agents/"
              /\ FetchFailed(fetched) => IsFallback(result'.snippet, c.args.query)]_vars

\* C14: when saveAvatarProfile or saveMemory has written the store during
\* a chat turn, the system prompt built for the next turn shows the store as
\* written: the tone and its instruction, the name, bio and tags of the
\* profile, and the memories among the three most recent ever appended.
C14_NextTurnSeesMutation ==
    [][(renders' = renders + 1 /\ renders >= 1 /\ mutatedAt = renders
            /\ "text" \in DOMAIN result') =>
          LET text == result'.text
              section == MemorySection(text.context)
              recent == LastItems(appended, 3)
          IN  /\ state.avatar # Undefined =>
                    LET a == The(state.avatar) IN
                    /\ text.tone = a.tone
                    /\ text.toneInstruction = ToneText(a.tone)
                    /\ text.context[2][2] = a.displayName
                    /\ a.bio # "" => text.context[3][2] = a.bio
                    /\ a.expertiseTags # <<>> =>
                          text.context[5] = <<"- Expertise: ">> \o CommaJoined(a.expertiseTags)
              /\ appended # <<>> =>
                    /\ Len(section) = Len(recent)
                    /\ \A i \in DOMAIN recent :
                          /\ section[i][2] = recent[i].type
                          /\ section[i][4] = recent[i].content]_vars

\* the second prompt, built after the first turn named the avatar Alex and
\* added a memory
C14_Witness ==
    /\ PromptBuilt
    /\ renders = 2
    /\ mutatedAt = 1
    /\ result.text.context[2] = <<"- Name: ", "Alex">>
    /\ Len(appended) = 7
    /\ MemorySection(result.text.context)[3][4] = "m"

\* C16: a stored memory never changes and leaves only from the front:
\* across every step the new sequence is the old one with zero or more items
\* dropped from its front and at most one item added at its end, so that no
\* item's id, createdAt, type or content changes, none leaves from the middle
\* or the end, and none changes place.
C16_ItemsImmutable ==
    [][\E dropped \in 0..Len(state.memories) :
          LET kept == SubSeq(state.memories, dropped + 1, Len(state.memories))
              new == state'.memories
          IN  \/ new = kept
              \/ /\ Len(new) = Len(kept) + 1
                 /\ SubSeq(new, 1, Len(kept)) = kept]_vars

\* the store after its first eviction, read by getAvatarState: the oldest
\* item is gone and the 50 others are as they were appended
C16_Witness ==
    /\ result.op = "getAvatarState"
    /\ Len(appended) = 51
    /\ state.memories = SubSeq(appended, 2, 51)

\* a profile input in which every field is absent or empty
EmptyInput(profileInput) ==
    \A f \in DOMAIN profileInput :
        IF f = "expertiseTags" THEN profileInput[f] = <<>> ELSE profileInput[f] = ""

\* C17: saveAvatarProfile called with every field absent or empty (no
\* field, displayName "", bio "", expertiseTags []) raises no error and,
\* when an avatar is stored, returns and stores a profile equal to it.
C17_EmptyInputNoOp ==
    [][\A profileInput \in ProfileInputs :
          (EmptyInput(profileInput) /\ ToolSaveAvatarProfile(profileInput)) =>
              /\ ~threw'
              /\ "error" \notin DOMAIN result'
              /\ state.avatar # Undefined =>
                    /\ state'.avatar = state.avatar
                    /\ result'.avatar = The(state.avatar)]_vars

\* C18: tool calls in flight together lose no update.  Every step leaves
\* the memories equal to the last 50 items ever appended, in the order the
\* calls finished, and a whole avatar; a saveMemory call that finishes adds
\* its item at the end; a saveAvatarProfile call that finishes stores its
\* fields over the avatar stored just before it, whatever finished since it
\* was asked for.
C18_NoLostUpdate ==
    [][/\ state'.memories = LastItems(appended', 50)
       /\ state'.avatar # Undefined => DOMAIN The(state'.avatar) = AvatarFields
       /\ \A c \in inflight \ inflight' :
             /\ c.tool = "saveMemory" =>
                   LET new == state'.memories IN
                   /\ Len(new) = Len(state.memories) + 1
                   /\ new[Len(new)].type = c.args.type
                   /\ new[Len(new)].content = c.args.content
                   /\ SubSeq(new, 1, Len(new) - 1) = state.memories
             /\ c.tool = "saveAvatarProfile" =>
                   \A f \in ProfileFields :
                       The(state'.avatar)[f] =
                           IF f \in DOMAIN c.args THEN c.args[f]
                           ELSE IF state.avatar # Undefined THEN The(state.avatar)[f]
                           ELSE HardDefault(f)]_vars

\* a saveMemory call asked for while the store was empty is still in flight
\* after another one has stored its item
C18_Witness ==
    /\ result.op = "saveMemory"
    /\ Len(state.memories) = 1
    /\ \E c \in inflight : c.tool = "saveMemory" /\ c.seen = <<>>

\* C20: saveAvatarProfile leaves the memories as they are, saveMemory
\* leaves the avatar as it is, and getAvatarState, researchWeb and the
\* building of the system prompt leave both as they are.
C20_Frame ==
    [][now' = now =>
          /\ result'.op = "saveAvatarProfile" => state'.memories = state.memories
          /\ result'.op = "saveMemory" => state'.avatar = state.avatar
          /\ result'.op \in {"getAvatarState", "researchWeb", "getSystemPrompt"} =>
                /\ state'.avatar = state.avatar
                /\ state'.memories = state.memories]_vars

\* the avatar named Alex and the seven memories are still stored after a
\* prompt was built and researchWeb returned
C20_Witness ==
    /\ result.op = "researchWeb"
    /\ renders = 1
    /\ state.avatar # Undefined
    /\ The(state.avatar).displayName = "Alex"
    /\ Len(state.memories) = 7
    /\ state.memories[7].content = "m"

\* C19: writing to a value the agent handed out (the avatar returned by
\* saveAvatarProfile or getAvatarState, a memory item returned by
\* getAvatarState or saveMemory) changes neither the stored avatar nor the
\* stored memories.
C19_HandedOutValuesDetached ==
    [][(CallerWritesAvatar \/ CallerWritesItem) =>
          /\ state'.avatar = state.avatar
          /\ state'.memories = state.memories]_vars

\* the four tools of the avatar
AvatarTools == {"saveAvatarProfile", "saveMemory", "researchWeb", "getAvatarState"}

\* C21: a call of saveAvatarProfile, saveMemory, researchWeb or
\* getAvatarState never propagates an exception and returns either a success
\* or an error; with no current agent it returns the error "Agent not
\* available" and changes no state; when the write of the store throws it
\* returns an error; it returns a success only when the store operation has
\* completed (the returned avatar is the stored one, the returned memories
\* end with the item just stored, the snapshot is that of the store).
C21_ToolErrors ==
    [][(result'.op \in AvatarTools /\ agent' = agent) =>
          /\ ~threw'
          /\ ("success" \in DOMAIN result') # ("error" \in DOMAIN result')
          /\ ~agent =>
                /\ "error" \in DOMAIN result'
                /\ result'.error = <<"Agent not available">>
                /\ state' = state /\ nextId' = nextId /\ appended' = appended
                /\ schedules' = schedules
          /\ (ToolSaveAvatarProfileThrows([displayName |-> "Alex"])
                    \/ ToolSaveMemoryThrows("note", "m")) =>
                "error" \in DOMAIN result'
          /\ "success" \in DOMAIN result' =>
                /\ result'.op = "saveAvatarProfile" => state'.avatar = Some(result'.avatar)
                /\ result'.op = "saveMemory" =>
                      /\ Len(appended') = Len(appended) + 1
                      /\ state'.memories[Len(state'.memories)] = appended'[Len(appended')]
                      /\ result'.recentMemories[Len(result'.recentMemories)]
                            = appended'[Len(appended')]
                /\ result'.op = "getAvatarState" =>
                      /\ result'.avatar = state.avatar
                      /\ IsSuffix(result'.recentMemories, state.memories)
                /\ result'.op = "researchWeb" => result'.query = "agents"]_vars

\* saveMemory, called with no current agent after an item was stored,
\* returned its error and the item is still the last one stored
C21_Witness ==
    /\ ~agent
    /\ result.op = "saveMemory"
    /\ "error" \in DOMAIN result
    /\ result.error = <<"Agent not available">>
    /\ Len(appended) = 7
    /\ state.memories = appended

\* the text is an error returned by scheduleTask
IsScheduleError(value) == value[1] = "Error scheduling task: "

\* C22: scheduleTask with the type "no-schedule" returns "Not a valid
\* schedule input" and calls no scheduler; with the type scheduled, delayed
\* or cron and an agent it calls the scheduler once, with the value of that
\* type and the callback executeTask; when the scheduling fails (no agent, a
\* call that throws, a promise that rejects) it returns an error text, and
\* it returns the success text only when the scheduling did not fail.
C22_ScheduleTask ==
    [][\A when \in ScheduleInputs, outcome \in ScheduleOutcomes :
          ToolScheduleTask(when, "stand-up", outcome) =>
              LET value == result'.value IN
              /\ when.type = "no-schedule" =>
                    /\ value = <<"Not a valid schedule input">>
                    /\ schedules' = schedules
              /\ (when.type # "no-schedule" /\ agent) =>
                    /\ Len(schedules') = Len(schedules) + 1
                    /\ schedules'[Len(schedules')].input = ScheduleValue(when)
                    /\ schedules'[Len(schedules')].callback = "executeTask"
              /\ (when.type # "no-schedule" /\ (~agent \/ outcome # "fulfils")) =>
                    IsScheduleError(value)
              /\ (when.type # "no-schedule" /\ ~IsScheduleError(value)) =>
                    /\ agent
                    /\ schedules'[Len(schedules')].outcome = "fulfils"]_vars

\* C23: a chat turn takes at most 10 model steps; a turn whose model asks
\* for tool calls at every step still ends; and the store is changed only by
\* a tool call that a step asked for, of which a turn has at most 10 times
\* the calls of one step.
C23_TurnTerminates ==
    /\ [](turn.steps <= StepLimit)
    /\ [](turn.calls <= StepLimit * MaxInflight)
    /\ [][(started /\ state' # state) =>
            /\ turn.running
            /\ Cardinality(inflight') = Cardinality(inflight) - 1]_vars
    /\ (turn.running ~> ~turn.running)

\* a turn has ended after ten model steps that all asked for tool calls, and
\* at least ten items were stored
C23_Witness ==
    /\ ~turn.running
    /\ inflight = {}
    /\ turn.steps = StepLimit
    /\ turn.calls >= StepLimit
    /\ Len(appended) >= StepLimit

====
